---- MODULE Spec2Model ----
(***************************************************************************)
(* Model of the crawl orchestrators (scraper.py, scraper_chefs_            *)
(* etablissement.py) and of the job supervisor (app.py).                   *)
(*                                                                         *)
(* A crawl is one call of PepitesScraper.scrape, PepitesScraper.           *)
(* scrape_all_categories or ChefsEtablissementScraper.scrape, executed by  *)
(* one of the threads of Threads.  The call is either made directly, with  *)
(* recording callbacks (the logs in obs), or by run_scrape /               *)
(* run_chefs_scrape of app.py, with the supervisor's progress callback.    *)
(***************************************************************************)
EXTENDS Integers, Sequences, FiniteSets, TLC

\* ------------------------------------------------------------------ bounds
\* Largest number of records the listing site holds.
MaxRecords == 3
\* Largest number of records one listing page carries.
MaxBatch == 2
\* Largest num_pages a direct caller passes to scrape().
MaxNumPages == 2
\* Largest number of records one category lists.
MaxCatRecords == 2
\* Largest number of categories fetch_categories() returns.
MaxCats == 2
\* Largest number of records the site holds in a supervised run.
JobMaxRecords == 1
\* Largest number of exported files the model counts.
MaxFiles == 2
\* Largest number of divs the sidebar has.
MaxSidebar == 2
\* Largest number of tag links one page has, the sidebar's apart.
MaxTags == 1
\* Largest number of records of the listing page whose records the pool
\* enriches.
PoolRecords == 5

\* ------------------------------------------------------- program constants
MAX_WORKERS == 4
PAGE_SIZE == 100
MaxPagesCap == 100

Threads == {"t1", "t2"}
Slots == {"scrape", "chefs"}

\* ----------------------------------------------------------------- records
\* A startup dict as _parse_card builds it: the fields the crawl reads or
\* writes.  The listing never fills fondateur, twitter, linkedin and
\* localisation.
Card(nom, url, web) ==
    [nom |-> nom, detail_url |-> url, site_web |-> web, fondateur |-> "",
     twitter |-> "", linkedin |-> "", localisation |-> ""]

\* The records of the site, in listing order; the listing repeats them
\* cyclically.  The first and the third share their detail_url, the second
\* has none.
Catalogue ==
    << Card("a", "u1", ""), Card("b", "", "w0"), Card("c", "u1", "w0"),
       Card("d", "u2", "") >>

\* Record number j (from 1) of the listing that starts at offset shift.
SiteRecord(shift, j) == Catalogue[((shift + j - 1) % Len(Catalogue)) + 1]

\* What scrape_listing_page returns for the page that starts after `cursor`
\* records of the listing and carries n records.
PageBatch(shift, cursor, n) == [i \in 1..n |-> SiteRecord(shift, cursor + i)]

\* The enrichment fields scrape_detail_page returns.  site_web is absent
\* from the dict when the page has no link: extra.get("site_web") is then
\* falsy, like "".
NoExtra ==
    [fondateur |-> "", twitter |-> "", linkedin |-> "", localisation |-> "",
     site_web |-> ""]

\* The detail page of a url.
DetailPage(url) ==
    IF url = "u1"
    THEN [fondateur |-> "f1", twitter |-> "", linkedin |-> "l1",
          localisation |-> "p1", site_web |-> "w1"]
    ELSE [fondateur |-> "f2", twitter |-> "t2", linkedin |-> "",
          localisation |-> "", site_web |-> ""]

\* The request for the detail page of the record named `failing` raises
\* inside scrape_detail_page, which then returns the empty extra.
scrape_detail_page(startup, failing) ==
    IF startup.nom = failing THEN NoExtra ELSE DetailPage(startup.detail_url)

\* ------------------------------------------------------------------ merge
PlainKeys == {"fondateur", "twitter", "linkedin", "localisation"}

\* Mutant: the four plain fields are assigned whatever the extra holds.
MergeExtra_Blank(startup, extra) ==
    [k \in DOMAIN startup |->
        IF k \in PlainKeys THEN extra[k]
        ELSE IF k = "site_web"
             THEN IF extra.site_web # "" /\ startup.site_web = ""
                  THEN extra.site_web ELSE startup.site_web
             ELSE startup[k]]

\* scrape.fetch_detail, merge of extra into the startup dict.
MergeExtra(startup, extra) ==
    [k \in DOMAIN startup |->
        IF k \in PlainKeys
        THEN IF extra[k] # "" THEN extra[k] ELSE startup[k]
        ELSE IF k = "site_web"
             THEN IF extra.site_web # "" /\ startup.site_web = ""
                  THEN extra.site_web ELSE startup.site_web
             ELSE startup[k]]

\* scrape_all_categories.fetch_detail, merge of extra into the startup dict.
MergeExtraAll(startup, extra) ==
    [k \in DOMAIN startup |->
        IF k \in PlainKeys
        THEN IF extra[k] # "" THEN extra[k] ELSE startup[k]
        ELSE IF k = "site_web"
             THEN IF extra.site_web # "" /\ startup.site_web = ""
                  THEN extra.site_web ELSE startup.site_web
             ELSE startup[k]]

\* ------------------------------------------------------------------ state
VARIABLES
    crawl,      \* per thread: the locals and the scraper object of its call
    obs,        \* per thread: what the recording callbacks and the stub
                \* source of a direct call have seen
    site,       \* the environment: what the remote sources hold
    job,        \* scrape_state and chefs_state of app.py
    files,      \* number of files written under DATA_DIR
    lastExport, \* the last export request and its answer
    merge,      \* the merge of one extra into one startup dict
    cats,       \* one call of fetch_categories
    sync,       \* the locks of app.py and the handlers inside them
    frozen      \* per slot: the job has completed and no start request
                \* was accepted since

vars == <<crawl, obs, site, job, files, lastExport, merge, cats, sync, frozen>>

Max(a, b) == IF a >= b THEN a ELSE b
Min(a, b) == IF a <= b THEN a ELSE b

IdleCrawl ==
    [mode |-> "none", pc |-> "idle", in_job |-> FALSE,
     progress_cb |-> FALSE, result_cb |-> FALSE,
     num_pages |-> 0, with_details |-> FALSE, max_records |-> 0,
     stop_requested |-> FALSE, page |-> 0, all_startups |-> <<>>,
     seen_keys |-> <<>>, total_steps |-> 0, cat_idx |-> 0, total_cats |-> 0,
     fut |-> <<>>, done |-> 0, total |-> 0, offset |-> 0, results |-> <<>>,
     short |-> FALSE, cursor |-> 0, ret |-> <<>>]

NoObs ==
    [reqLog |-> <<>>, resultLog |-> <<>>, progLog |-> <<>>, nDetail |-> 0,
     reqAfterStop |-> 0, detailAfterStop |-> 0, stopped |-> FALSE,
     listPassed |-> 0, detailPassed |-> 0, atStop |-> <<>>,
     stopPc |-> "", stopCat |-> 0, stopAsked |-> FALSE]

IdleJob ==
    [running |-> FALSE, progress |-> 0, total |-> 0, message |-> "",
     results |-> <<>>]

NoExport == [slot |-> "", fmt |-> "", answer |-> "", wrote |-> FALSE, n |-> 0]
NoMerge == [pc |-> "off", startup |-> Card("", "", ""), extra |-> NoExtra,
            fn |-> "", out |-> Card("", "", "")]

\* ------------------------------------------------------------- callbacks
SlotOf(c) == IF c.mode = "chefs" THEN "chefs" ELSE "scrape"

\* app.progress_callback and app.chefs_progress_callback: the three fields
\* are written under the slot's lock, in one critical section.
progress_callback(slot, current, total, message) ==
    [job EXCEPT ![slot] = [@ EXCEPT !.progress = current, !.total = total,
                                    !.message = message]]

\* The job state after the crawl c has called its progress callback.
JobAfterProgress(c, current, total, message) ==
    IF c.in_job THEN progress_callback(SlotOf(c), current, total, message)
    ELSE job

\* The log after the crawl c has called its progress callback.
ObsAfterProgress(o, c, current, total, message) ==
    IF c.progress_cb /\ ~c.in_job
    THEN [o EXCEPT !.progLog = Append(@, <<current, total, message>>)]
    ELSE o

\* The log after the crawl c has called its result callback.
ObsAfterResult(o, c, batch) ==
    IF c.result_cb THEN [o EXCEPT !.resultLog = Append(@, batch)] ELSE o

\* What the stub source records of one listing-page request; cat is the
\* index of the category asked for (0 in scrape()).
Answer(kind, batch, page) ==
    [kind |-> kind, batch |-> batch, page |-> page, cat |-> 0]

\* The log after one listing-page request of crawl c.
ObsAfterRequest(o, c, answer) ==
    [o EXCEPT !.reqLog = IF c.in_job THEN @
                         ELSE Append(@, [answer EXCEPT !.cat = c.cat_idx]),
              !.reqAfterStop = IF c.stop_requested THEN @ + 1 ELSE @]

\* Number of records the listing still holds after the cursor.
Remaining(c) ==
    LET n == site.records IN IF c.cursor >= n THEN 0 ELSE n - c.cursor

\* The sizes a listing page can have: empty once the listing is exhausted.
PageSizes(c) ==
    IF Remaining(c) = 0 THEN {0} ELSE 1..Min(site.batch, Remaining(c))

\* ------------------------------------------------------ PepitesScraper.stop
stop(t) ==
    /\ crawl[t].mode \in {"scrape", "all"}
    /\ ~crawl[t].in_job
    /\ crawl[t].pc \notin {"idle", "returned"}
    /\ ~crawl[t].stop_requested
    /\ crawl' = [crawl EXCEPT ![t].stop_requested = TRUE]
    /\ obs' = [obs EXCEPT
          ![t].stopped = TRUE,
          ![t].atStop = crawl[t].all_startups,
          ![t].stopPc = crawl[t].pc,
          ![t].stopCat = crawl[t].cat_idx,
          ![t].listPassed =
              IF crawl[t].pc \in {"s_progress", "s_fetch", "a_fetch"}
              THEN 1 ELSE 0,
          ![t].detailPassed =
              Cardinality({i \in DOMAIN crawl[t].fut :
                              crawl[t].fut[i] = "checked"})]
    /\ UNCHANGED <<site, job, files, lastExport, merge, cats, sync, frozen>>

\* ---------------------------------------------------- PepitesScraper.scrape
\* Mutants of the loop test: the stop flag is not read; the page bound is
\* off by one; num_pages = 0 is taken as a bound.
ScrapeLoopContinues_NoStop(c) ==
    ~(c.num_pages # 0 /\ c.page >= c.num_pages)

ScrapeLoopContinues_OffByOne(c) ==
    /\ ~c.stop_requested
    /\ ~(c.num_pages # 0 /\ c.page > c.num_pages)

ScrapeLoopContinues_ZeroBounded(c) ==
    /\ ~c.stop_requested
    /\ c.page < c.num_pages

\* The test of the while loop and of its first statement.
ScrapeLoopContinues(c) ==
    /\ ~c.stop_requested
    /\ ~(c.num_pages # 0 /\ c.page >= c.num_pages)

S_LoopTest(t) ==
    /\ crawl[t].mode = "scrape" /\ crawl[t].pc = "s_loop"
    /\ crawl' = [crawl EXCEPT ![t].pc =
                    IF ScrapeLoopContinues(crawl[t]) THEN "s_progress"
                    ELSE "s_after"]
    /\ UNCHANGED <<obs, site, job, files, lastExport, merge, cats, sync, frozen>>

\* The progress call made before each page request.
ListingProgress(c) ==
    IF c.num_pages = 0
    THEN <<c.page, Max(c.page + 1, c.total_steps), "page">>
    ELSE <<c.page, c.total_steps, "page">>

S_Progress(t) ==
    LET c == crawl[t]
        p == ListingProgress(c)
    IN  /\ c.mode = "scrape" /\ c.pc = "s_progress"
        /\ crawl' = [crawl EXCEPT ![t].pc = "s_fetch"]
        /\ obs' = [obs EXCEPT ![t] = ObsAfterProgress(@, c, p[1], p[2], p[3])]
        /\ job' = JobAfterProgress(c, p[1], p[2], p[3])
        /\ UNCHANGED <<site, files, lastExport, merge, cats, sync, frozen>>

\* Mutant: the batch is put in front of the records collected so far.
ScrapeAfterPage_Prepend(c, startups) ==
    IF startups = <<>>
    THEN [c EXCEPT !.pc = "s_after"]
    ELSE [c EXCEPT !.all_startups = startups \o @,
                   !.cursor = @ + Len(startups),
                   !.page = @ + 1,
                   !.pc = "s_loop"]

\* Mutant: the page index is advanced by two.
ScrapeAfterPage_Skip(c, startups) ==
    IF startups = <<>>
    THEN [c EXCEPT !.pc = "s_after"]
    ELSE [c EXCEPT !.all_startups = @ \o startups,
                   !.cursor = @ + Len(startups),
                   !.page = @ + 2,
                   !.pc = "s_loop"]

\* The crawl after a page answered with the batch `startups`.
ScrapeAfterPage(c, startups) ==
    IF startups = <<>>
    THEN [c EXCEPT !.pc = "s_after"]
    ELSE [c EXCEPT !.all_startups = @ \o startups,
                   !.cursor = @ + Len(startups),
                   !.page = @ + 1,
                   !.pc = "s_loop"]

\* Mutant: the exception of the page request is not caught.
ScrapeAfterError_Raises(c) == [c EXCEPT !.pc = "raised"]

\* The `except Exception` clause of the page loop: the loop is left.
ScrapeAfterError(c) == [c EXCEPT !.pc = "s_after"]

\* One page request: the page answers with a batch, or the request raises.
S_Fetch(t) ==
    LET c == crawl[t] IN
    /\ c.mode = "scrape" /\ c.pc = "s_fetch"
    /\ \/ \E n \in PageSizes(c) :
            LET startups == PageBatch(0, c.cursor, n) IN
            /\ crawl' = [crawl EXCEPT ![t] = ScrapeAfterPage(c, startups)]
            /\ obs' = [obs EXCEPT ![t] =
                         LET o == ObsAfterRequest(@, c, Answer("ok", startups, c.page))
                         IN IF startups = <<>> THEN o
                            ELSE ObsAfterResult(o, c, startups)]
       \/ /\ crawl' = [crawl EXCEPT ![t] = ScrapeAfterError(c)]
          /\ obs' = [obs EXCEPT ![t] =
                       ObsAfterRequest(@, c, Answer("error", <<>>, c.page))]
    /\ UNCHANGED <<site, job, files, lastExport, merge, cats, sync, frozen>>

\* The futures of the detail phase, one per submitted record, all queued.
Submitted(n) == [i \in 1..n |-> "queued"]

\* After the listing loop: the detail phase is entered or skipped.
S_After(t) ==
    LET c == crawl[t] IN
    /\ c.mode = "scrape" /\ c.pc = "s_after"
    /\ crawl' = [crawl EXCEPT ![t] =
          IF c.with_details /\ c.all_startups # <<>> /\ ~c.stop_requested
          THEN [c EXCEPT !.total_steps = Len(c.all_startups),
                         !.fut = Submitted(Len(c.all_startups)),
                         !.done = 0,
                         !.pc = "pool"]
          ELSE [c EXCEPT !.pc = "s_final"]]
    /\ UNCHANGED <<obs, site, job, files, lastExport, merge, cats, sync, frozen>>

\* Mutant: the last call reports the pages scraped over the pages asked.
ScrapeFinalProgress_Pages(c) == <<c.page, c.total_steps, "Termine">>

\* The last progress call of scrape().
ScrapeFinalProgress(c) == <<1, 1, "Termine">>

S_Final(t) ==
    LET c == crawl[t]
        p == ScrapeFinalProgress(c)
    IN  /\ c.mode = "scrape" /\ c.pc = "s_final"
        /\ crawl' = [crawl EXCEPT ![t].pc = "returned",
                                  ![t].ret = c.all_startups]
        /\ obs' = [obs EXCEPT ![t] = ObsAfterProgress(@, c, p[1], p[2], p[3])]
        /\ job' = JobAfterProgress(c, p[1], p[2], p[3])
        /\ UNCHANGED <<site, files, lastExport, merge, cats, sync, frozen>>


\* ------------------------------------------ the pool of the detail phase
\* ThreadPoolExecutor(max_workers=MAX_WORKERS): a future is queued, then
\* running in a worker, then past the stop check of fetch_detail, then in
\* its detail request, then done; or cancelled while queued.
Active(fut) == {i \in DOMAIN fut : fut[i] \in {"running", "checked", "inflight"}}
Queued(fut) == {i \in DOMAIN fut : fut[i] = "queued"}
Finished(fut) == {i \in DOMAIN fut : fut[i] = "done"}
SubmittedSet(fut) == {i \in DOMAIN fut : fut[i] # "none"}

\* Mutant: a thread is started for every submitted future.
MayDequeue_Unbounded(fut, i) ==
    /\ fut[i] = "queued"
    /\ \A j \in Queued(fut) : i <= j

\* Whether a worker may take future i: the work queue is first in, first
\* out, and at most MAX_WORKERS workers exist.  The workers are threads of
\* their own: their steps below depend on the state of their future, not on
\* the position of the thread that runs scrape().
MayDequeue(fut, i) ==
    /\ fut[i] = "queued"
    /\ \A j \in Queued(fut) : i <= j
    /\ Cardinality(Active(fut)) < MAX_WORKERS

W_Dequeue(t, i) ==
    LET c == crawl[t] IN
    /\ c.mode \in {"scrape", "all"}
    /\ i \in DOMAIN c.fut /\ MayDequeue(c.fut, i)
    /\ crawl' = [crawl EXCEPT ![t].fut[i] = "running"]
    /\ UNCHANGED <<obs, site, job, files, lastExport, merge, cats, sync, frozen>>

\* Mutant: the detail_url of the record is not tested.
FetchDetailProceeds_NoUrlTest(c, i) == ~c.stop_requested

\* The tests at the head of fetch_detail: TRUE when the detail page is to be
\* fetched.  scrape_all_categories submits only records with a detail_url.
FetchDetailProceeds(c, i) ==
    /\ ~c.stop_requested
    /\ (c.mode = "scrape" => c.all_startups[i].detail_url # "")

W_Check(t, i) ==
    LET c == crawl[t] IN
    /\ c.mode \in {"scrape", "all"}
    /\ i \in DOMAIN c.fut /\ c.fut[i] = "running"
    /\ crawl' = [crawl EXCEPT ![t].fut[i] =
                    IF FetchDetailProceeds(c, i) THEN "checked" ELSE "done"]
    /\ UNCHANGED <<obs, site, job, files, lastExport, merge, cats, sync, frozen>>

\* scrape_detail_page sends its request.
W_Request(t, i) ==
    LET c == crawl[t] IN
    /\ c.mode \in {"scrape", "all"}
    /\ i \in DOMAIN c.fut /\ c.fut[i] = "checked"
    /\ crawl' = [crawl EXCEPT ![t].fut[i] = "inflight"]
    /\ obs' = [obs EXCEPT ![t].nDetail = @ + 1,
                          ![t].detailAfterStop =
                              IF c.stop_requested THEN @ + 1 ELSE @]
    /\ UNCHANGED <<site, job, files, lastExport, merge, cats, sync, frozen>>

\* The record after fetch_detail has merged the answer of its detail page.
Enriched(c, i) ==
    LET s == c.all_startups[i]
        extra == scrape_detail_page(s, site.failing)
    IN  IF c.mode = "all" THEN MergeExtraAll(s, extra) ELSE MergeExtra(s, extra)

W_Finish(t, i) ==
    LET c == crawl[t] IN
    /\ c.mode \in {"scrape", "all"}
    /\ i \in DOMAIN c.fut /\ c.fut[i] = "inflight"
    /\ crawl' = [crawl EXCEPT ![t].fut[i] = "done",
                              ![t].all_startups[i] = Enriched(c, i)]
    /\ UNCHANGED <<obs, site, job, files, lastExport, merge, cats, sync, frozen>>

\* pool.shutdown(wait=False, cancel_futures=True): the queued futures are
\* cancelled, the started ones keep running.
CancelFutures(fut) ==
    [i \in DOMAIN fut |-> IF fut[i] = "queued" THEN "cancelled" ELSE fut[i]]

\* One iteration of `for future in as_completed(futures)`.
PoolIterate(c) ==
    IF c.stop_requested
    THEN [c EXCEPT !.fut = CancelFutures(c.fut), !.pc = "pool_exit"]
    ELSE [c EXCEPT !.done = @ + 1]

M_Iter(t) ==
    LET c == crawl[t]
        total == Cardinality(SubmittedSet(c.fut))
    IN  /\ c.pc = "pool"
        /\ c.done < total
        /\ Cardinality(Finished(c.fut)) > c.done
        /\ crawl' = [crawl EXCEPT ![t] = PoolIterate(c)]
        /\ obs' = [obs EXCEPT ![t] =
                     IF c.stop_requested THEN @
                     ELSE ObsAfterProgress(@, c, c.done + 1, total, "detail")]
        /\ job' = IF c.stop_requested THEN job
                  ELSE JobAfterProgress(c, c.done + 1, total, "detail")
        /\ UNCHANGED <<site, files, lastExport, merge, cats, sync, frozen>>

\* Mutant: the block is left without waiting for the workers.
PoolMayExit_NoJoin(c) ==
    \/ c.pc = "pool_exit"
    \/ c.pc = "pool" /\ c.done = Cardinality(SubmittedSet(c.fut))

\* The end of the `with ThreadPoolExecutor` block: shutdown(wait=True) joins
\* the workers, so the block is left only when no future is queued or
\* running.
PoolMayExit(c) ==
    /\ \/ c.pc = "pool_exit"
       \/ c.pc = "pool" /\ c.done = Cardinality(SubmittedSet(c.fut))
    /\ Active(c.fut) = {}
    /\ Queued(c.fut) = {}

M_Exit(t) ==
    LET c == crawl[t] IN
    /\ PoolMayExit(c)
    /\ crawl' = [crawl EXCEPT ![t].pc =
                    IF c.mode = "all" THEN "a_final" ELSE "s_final"]
    /\ UNCHANGED <<obs, site, job, files, lastExport, merge, cats, sync, frozen>>

\* ------------------------------------- PepitesScraper.scrape_all_categories
\* The identity key of a record.
KeyOf(s) == IF s.detail_url # "" THEN s.detail_url ELSE s.nom

InSeq(x, seq) == \E i \in DOMAIN seq : seq[i] = x

\* Mutant: every record of the page is taken as new.
NewStartups_NoDedup(keys, startups) == startups

\* The records of a page that the dedup mapping `seen` does not hold yet,
\* each key once: the loop over `startups`.
RECURSIVE NewStartups(_, _)
NewStartups(keys, startups) ==
    IF startups = <<>> THEN <<>>
    ELSE LET s == Head(startups) IN
         IF InSeq(KeyOf(s), keys)
         THEN NewStartups(keys, Tail(startups))
         ELSE <<s>> \o NewStartups(Append(keys, KeyOf(s)), Tail(startups))

KeysOf(startups) == [i \in DOMAIN startups |-> KeyOf(startups[i])]

\* fetch_categories() and the early return on an empty category set.
A_Categories(t) ==
    LET c == crawl[t] IN
    /\ c.mode = "all" /\ c.pc = "a_start"
    /\ \E n \in 0..MaxCats :
         crawl' = [crawl EXCEPT ![t] =
            IF n = 0 THEN [c EXCEPT !.pc = "returned", !.ret = <<>>]
            ELSE [c EXCEPT !.total_cats = n, !.cat_idx = 0, !.pc = "a_cat"]]
    /\ UNCHANGED <<obs, site, job, files, lastExport, merge, cats, sync, frozen>>

\* Mutant: the stop flag is not read at the head of the iteration.
CategoryStarts_NoStop(c) == c.cat_idx < c.total_cats

\* The head of one iteration of the loop over the categories.
CategoryStarts(c) == c.cat_idx < c.total_cats /\ ~c.stop_requested

A_Category(t) ==
    LET c == crawl[t] IN
    /\ c.mode = "all" /\ c.pc = "a_cat"
    /\ IF CategoryStarts(c)
       THEN /\ crawl' = [crawl EXCEPT ![t].page = 0, ![t].cursor = 0,
                                      ![t].pc = "a_loop"]
            /\ obs' = [obs EXCEPT ![t] =
                         ObsAfterProgress(@, c, c.cat_idx, c.total_cats, "cat")]
            /\ job' = JobAfterProgress(c, c.cat_idx, c.total_cats, "cat")
       ELSE /\ crawl' = [crawl EXCEPT ![t].pc = "a_after"]
            /\ UNCHANGED <<obs, job>>
    /\ UNCHANGED <<site, files, lastExport, merge, cats, sync, frozen>>

\* The test of the page loop of one category.
CategoryLoopContinues(c) == ~c.stop_requested

A_LoopTest(t) ==
    LET c == crawl[t] IN
    /\ c.mode = "all" /\ c.pc = "a_loop"
    /\ crawl' = [crawl EXCEPT ![t] =
          IF CategoryLoopContinues(c) THEN [c EXCEPT !.pc = "a_fetch"]
          ELSE [c EXCEPT !.cat_idx = @ + 1, !.pc = "a_cat"]]
    /\ UNCHANGED <<obs, site, job, files, lastExport, merge, cats, sync, frozen>>

\* The crawl after a category page answered with the batch `startups`.
AllAfterPage(c, startups) ==
    IF startups = <<>>
    THEN [c EXCEPT !.cat_idx = @ + 1, !.pc = "a_cat"]
    ELSE LET new_startups == NewStartups(c.seen_keys, startups) IN
         [c EXCEPT !.all_startups = @ \o new_startups,
                   !.seen_keys = @ \o KeysOf(new_startups),
                   !.cursor = @ + Len(startups),
                   !.page = @ + 1,
                   !.pc = "a_loop"]

\* The `except Exception` clause of the page loop of a category: the loop
\* is left and the next category follows.
AllAfterError(c) == [c EXCEPT !.cat_idx = @ + 1, !.pc = "a_cat"]

A_Fetch(t) ==
    LET c == crawl[t] IN
    /\ c.mode = "all" /\ c.pc = "a_fetch"
    /\ \/ \E n \in PageSizes(c) :
            LET startups == PageBatch(c.cat_idx, c.cursor, n)
                new_startups == NewStartups(c.seen_keys, startups)
            IN
            /\ crawl' = [crawl EXCEPT ![t] = AllAfterPage(c, startups)]
            /\ obs' = [obs EXCEPT ![t] =
                         LET o == ObsAfterRequest(@, c, Answer("ok", startups, c.page))
                         IN IF new_startups = <<>> THEN o
                            ELSE ObsAfterResult(o, c, new_startups)]
       \/ /\ crawl' = [crawl EXCEPT ![t] = AllAfterError(c)]
          /\ obs' = [obs EXCEPT ![t] =
                       ObsAfterRequest(@, c, Answer("error", <<>>, c.page))]
    /\ UNCHANGED <<site, job, files, lastExport, merge, cats, sync, frozen>>

\* The futures of scrape_all_categories: one per record with a detail_url.
SubmittedAll(startups) ==
    [i \in DOMAIN startups |->
        IF startups[i].detail_url # "" THEN "queued" ELSE "none"]

A_After(t) ==
    LET c == crawl[t] IN
    /\ c.mode = "all" /\ c.pc = "a_after"
    /\ crawl' = [crawl EXCEPT ![t] =
          IF c.with_details /\ ~c.stop_requested
          THEN [c EXCEPT !.fut = SubmittedAll(c.all_startups),
                         !.done = 0,
                         !.pc = "pool"]
          ELSE [c EXCEPT !.pc = "a_final"]]
    /\ UNCHANGED <<obs, site, job, files, lastExport, merge, cats, sync, frozen>>

\* The last progress call of scrape_all_categories().
AllFinalProgress(c) == <<1, 1, "Termine">>

A_Final(t) ==
    LET c == crawl[t]
        p == AllFinalProgress(c)
    IN  /\ c.mode = "all" /\ c.pc = "a_final"
        /\ crawl' = [crawl EXCEPT ![t].pc = "returned",
                                  ![t].ret = c.all_startups]
        /\ obs' = [obs EXCEPT ![t] = ObsAfterProgress(@, c, p[1], p[2], p[3])]
        /\ job' = JobAfterProgress(c, p[1], p[2], p[3])
        /\ UNCHANGED <<site, files, lastExport, merge, cats, sync, frozen>>


\* ------------------------------------------ ChefsEtablissementScraper.scrape
\* count_total(): the dataset's total_count, or 0 when the request fails.
CountTotalAnswers == {0, site.chefs}

\* The total announced by the first progress call.
ChefsTotal(max_records, count) ==
    IF max_records # 0 /\ max_records < count THEN max_records ELSE count

C_Count(t) ==
    LET c == crawl[t] IN
    /\ c.mode = "chefs" /\ c.pc = "c_count"
    /\ \E count \in CountTotalAnswers :
         LET total == ChefsTotal(c.max_records, count) IN
         /\ crawl' = [crawl EXCEPT ![t].total = total, ![t].pc = "c_loop"]
         /\ obs' = [obs EXCEPT ![t] = ObsAfterProgress(@, c, 0, total, "total")]
         /\ job' = JobAfterProgress(c, 0, total, "total")
    /\ UNCHANGED <<site, files, lastExport, merge, cats, sync, frozen>>

\* The limit of the next request; 0 when max_records is reached.
ChefsLimit(c) ==
    IF c.max_records # 0
    THEN LET remaining == c.max_records - Len(c.results) IN
         IF remaining <= 0 THEN 0 ELSE Min(PAGE_SIZE, remaining)
    ELSE PAGE_SIZE

\* The number of records the API returns from `offset` under `limit`.
ApiRecords(offset, limit) ==
    IF offset >= site.chefs THEN 0 ELSE Min(limit, site.chefs - offset)

\* One iteration of the while loop up to the parsing of the records.
C_Request(t) ==
    LET c == crawl[t]
        limit == ChefsLimit(c)
    IN
    /\ c.mode = "chefs" /\ c.pc = "c_loop"
    /\ IF limit = 0
       THEN crawl' = [crawl EXCEPT ![t].pc = "c_final"]
       ELSE \/ LET n == ApiRecords(c.offset, limit) IN
               crawl' = [crawl EXCEPT ![t] =
                  IF n = 0 THEN [c EXCEPT !.pc = "c_final"]
                  ELSE [c EXCEPT
                          !.results = @ \o [i \in 1..n |-> c.offset + i],
                          !.offset = @ + n,
                          !.short = (n < limit),
                          !.pc = "c_progress"]]
            \/ crawl' = [crawl EXCEPT ![t].pc = "c_final"]
    /\ UNCHANGED <<obs, site, job, files, lastExport, merge, cats, sync, frozen>>

\* The progress call of one iteration and the test that ends the loop.
C_Progress(t) ==
    LET c == crawl[t] IN
    /\ c.mode = "chefs" /\ c.pc = "c_progress"
    /\ crawl' = [crawl EXCEPT ![t].pc = IF c.short THEN "c_final" ELSE "c_loop"]
    /\ obs' = [obs EXCEPT ![t] =
                 ObsAfterProgress(@, c, Len(c.results), c.total, "got")]
    /\ job' = JobAfterProgress(c, Len(c.results), c.total, "got")
    /\ UNCHANGED <<site, files, lastExport, merge, cats, sync, frozen>>

\* The last progress call of ChefsEtablissementScraper.scrape().
ChefsFinalProgress(c) == <<Len(c.results), Len(c.results), "Termine">>

C_Final(t) ==
    LET c == crawl[t]
        p == ChefsFinalProgress(c)
    IN  /\ c.mode = "chefs" /\ c.pc = "c_final"
        /\ crawl' = [crawl EXCEPT ![t].pc = "returned", ![t].ret = c.results]
        /\ obs' = [obs EXCEPT ![t] = ObsAfterProgress(@, c, p[1], p[2], p[3])]
        /\ job' = JobAfterProgress(c, p[1], p[2], p[3])
        /\ UNCHANGED <<site, files, lastExport, merge, cats, sync, frozen>>

\* --------------------------------------------------- app.py, job supervisor
\* The values of num_pages and max_records a request body carries.
RawPages == {-1, 0, 1, MaxPagesCap + 1}
RawMaxRecords == {-1, 0, 1}

\* api_scrape: num_pages = 0 if raw_pages == 0 else min(raw_pages, 100).
NumPagesOf(raw_pages) ==
    IF raw_pages = 0 THEN 0 ELSE Min(raw_pages, MaxPagesCap)

\* The check api_scrape and api_chefs_scrape make under the slot's lock:
\* TRUE when the request is answered 409.
StartRejected(slot) == job[slot].running

\* First half of api_scrape / api_chefs_scrape: the check under the lock and
\* the parsing of the request body.
ApiCheck(t, slot) ==
    /\ crawl[t].pc = "idle"
    /\ IF StartRejected(slot)
       THEN /\ crawl' = [crawl EXCEPT ![t] =
                            [IdleCrawl EXCEPT !.pc = "rejected"]]
       ELSE IF slot = "scrape"
       THEN \E raw \in RawPages, d \in BOOLEAN :
              crawl' = [crawl EXCEPT ![t] =
                 [IdleCrawl EXCEPT !.mode = "scrape", !.pc = "accepted",
                                   !.in_job = TRUE, !.progress_cb = TRUE,
                                   !.num_pages = NumPagesOf(raw),
                                   !.with_details = d]]
       ELSE \E m \in RawMaxRecords :
              crawl' = [crawl EXCEPT ![t] =
                 [IdleCrawl EXCEPT !.mode = "chefs", !.pc = "accepted",
                                   !.in_job = TRUE, !.progress_cb = TRUE,
                                   !.max_records = m]]
    /\ frozen' = IF StartRejected(slot) THEN frozen
                 ELSE [frozen EXCEPT ![slot] = FALSE]
    /\ UNCHANGED <<obs, site, job, files, lastExport, merge, cats, sync>>

\* The 409 answer is sent: the request is over and no thread was started.
ApiConflict(t) ==
    /\ crawl[t].pc = "rejected"
    /\ crawl' = [crawl EXCEPT ![t] = IdleCrawl]
    /\ UNCHANGED <<obs, site, job, files, lastExport, merge, cats, sync, frozen>>

\* Second half of api_scrape / api_chefs_scrape: thread.start() and the
\* "started" answer.
ApiStart(t) ==
    /\ crawl[t].pc = "accepted"
    /\ crawl' = [crawl EXCEPT ![t].pc = "run_init"]
    /\ UNCHANGED <<obs, site, job, files, lastExport, merge, cats, sync, frozen>>

\* The first critical section of run_scrape / run_chefs_scrape.
RunInitState(c) ==
    [running |-> TRUE, progress |-> 0,
     total |-> IF c.mode = "chefs" THEN 1 ELSE c.num_pages,
     message |-> "Demarrage", results |-> <<>>]

RunInit(t) ==
    LET c == crawl[t] IN
    /\ c.pc = "run_init"
    /\ job' = [job EXCEPT ![SlotOf(c)] = RunInitState(c)]
    /\ crawl' = [crawl EXCEPT ![t].pc =
                    IF c.mode = "chefs" THEN "c_count" ELSE "s_loop",
                 ![t].total_steps =
                    IF c.num_pages = 0 THEN 1 ELSE c.num_pages]
    /\ UNCHANGED <<obs, site, files, lastExport, merge, cats, sync, frozen>>

\* Mutant: the last critical section leaves the running flag as it is.
RunFinishState_StillRunning(c, old) ==
    [old EXCEPT !.results = c.ret, !.message = "Termine n"]

\* The last critical section of run_scrape / run_chefs_scrape.
RunFinishState(c, old) ==
    [old EXCEPT !.results = c.ret, !.running = FALSE, !.message = "Termine n"]

RunFinish(t) ==
    LET c == crawl[t] IN
    /\ c.in_job /\ c.pc = "returned"
    /\ job' = [job EXCEPT ![SlotOf(c)] = RunFinishState(c, @)]
    /\ crawl' = [crawl EXCEPT ![t] = IdleCrawl]
    /\ obs' = [obs EXCEPT ![t] = NoObs]
    /\ frozen' = [frozen EXCEPT ![SlotOf(c)] = TRUE]
    /\ UNCHANGED <<site, files, lastExport, merge, cats, sync>>

\* The crawl threads a slot has: started by an accepted request and not yet
\* through the last critical section of their run function.
SlotThreads(slot) ==
    {t \in Threads : /\ crawl[t].in_job
                     /\ SlotOf(crawl[t]) = slot
                     /\ crawl[t].pc \notin {"idle", "rejected", "accepted"}}

\* A client asks to stop the job of a slot.  app.py routes no such request
\* and keeps no reference to the scraper object of a running crawl: the
\* request is answered 404 and nothing of the program changes.  stopAsked
\* records, for the crawl threads of the slot, that the request was made.
StopRequest(slot) ==
    /\ job[slot].running
    /\ \E t \in SlotThreads(slot) : ~obs[t].stopAsked
    /\ obs' = [t \in Threads |->
                 IF t \in SlotThreads(slot)
                 THEN [obs[t] EXCEPT !.stopAsked = TRUE] ELSE obs[t]]
    /\ UNCHANGED <<crawl, site, job, files, lastExport, merge, cats, sync,
                   frozen>>

\* ------------------------------------------------------------------ export
Formats == {"csv", "excel", "pdf"}

\* The answer of api_export / api_chefs_export for the copied results.
ExportAnswer(results, fmt) ==
    IF results = <<>> THEN "no_data"
    ELSE IF fmt \in {"csv", "excel"} THEN "file"
    ELSE "unsupported"

\* Mutant: the file is written before the results are looked at.
ExportWrites_Always(results, fmt) == fmt \in {"csv", "excel"}

\* Whether the export writes a file under DATA_DIR.
ExportWrites(results, fmt) == results # <<>> /\ fmt \in {"csv", "excel"}

api_export(slot, fmt) ==
    LET results == job[slot].results
        wrote == ExportWrites(results, fmt)
    IN  /\ wrote => files < MaxFiles
        /\ lastExport' = [slot |-> slot, fmt |-> fmt,
                          answer |-> ExportAnswer(results, fmt),
                          wrote |-> wrote,
                          n |-> 1 - lastExport.n]
        /\ files' = IF wrote THEN files + 1 ELSE files
        /\ UNCHANGED <<crawl, obs, site, job, merge, cats, sync, frozen>>

\* -------------------------------------------------- merge of a detail page
FieldValues == {"", "x"}
ExtraValues == {"", "y"}

Startups ==
    [nom : {"a"}, detail_url : {"u1"}, site_web : FieldValues,
     fondateur : FieldValues, twitter : FieldValues, linkedin : FieldValues,
     localisation : FieldValues]

Extras ==
    [site_web : ExtraValues, fondateur : ExtraValues, twitter : ExtraValues,
     linkedin : ExtraValues, localisation : ExtraValues]

\* fetch_detail of scrape() merges the extra of merge into its startup.
MergeScrape ==
    /\ merge.pc = "in"
    /\ merge' = [merge EXCEPT !.pc = "out", !.fn = "scrape",
                              !.out = MergeExtra(merge.startup, merge.extra)]
    /\ UNCHANGED <<crawl, obs, site, job, files, lastExport, cats, sync, frozen>>

\* fetch_detail of scrape_all_categories() does.
MergeAll ==
    /\ merge.pc = "in"
    /\ merge' = [merge EXCEPT !.pc = "out", !.fn = "all",
                              !.out = MergeExtraAll(merge.startup, merge.extra)]
    /\ UNCHANGED <<crawl, obs, site, job, files, lastExport, cats, sync, frozen>>

\* ------------------------------------------- app.py, state_lock, chefs_lock
\* The statements of app.py inside `with state_lock:` / `with chefs_lock:`,
\* one field of the job state at a time.
\* threading.Lock: acquire() returns only when no thread holds the lock.
\* Mutant: the lock is never seen as held.
LockFree_Always(slot) == TRUE

LockFree(slot) == sync.lock[slot] = ""

\* The fields each critical section writes, in the order of its statements.
InitFields == <<"running", "progress", "total", "message", "results">>
ProgressFields == <<"progress", "total", "message">>
FinishFields == <<"results", "running", "message">>

\* The fields each handler reads: api_progress builds its answer from the
\* five fields, api_results and api_export copy the results.
Handlers == {"progress", "results", "export"}
ReadFields(handler) ==
    IF handler = "progress"
    THEN <<"running", "progress", "total", "message", "results">>
    ELSE <<"results">>

\* The writes that take the job state to `target`.
WritesOf(fields, target) ==
    [i \in DOMAIN fields |-> <<fields[i], target[fields[i]]>>]

\* The arguments of the run functions and of the progress calls of one run.
PollRuns == {[mode |-> "scrape", num_pages |-> 2],
             [mode |-> "chefs", num_pages |-> 0]}
PollCalls == {<<1, 2, "page">>, <<1, 1, "Termine">>}
PollResults == {<<>>, <<Card("a", "u1", "")>>}

IdleWriter == [pc |-> "idle", slot |-> "scrape", phase |-> "none",
               section |-> "", todo |-> <<>>]
IdleReader == [pc |-> "idle", slot |-> "scrape", handler |-> "",
               todo |-> <<>>, snap |-> IdleJob, at |-> IdleJob]

NoSync ==
    [lock |-> [s \in Slots |-> ""], w |-> IdleWriter, r |-> IdleReader,
     committed |-> [s \in Slots |-> IdleJob]]

\* The crawl thread enters the first critical section of its run function.
RunAcquireInit ==
    /\ sync.w.pc = "idle" /\ sync.w.phase = "none"
    /\ \E c \in PollRuns :
         /\ LockFree(SlotOf(c))
         /\ sync' = [sync EXCEPT
               !.lock[SlotOf(c)] = "w",
               !.w = [pc |-> "in", slot |-> SlotOf(c), phase |-> "run",
                      section |-> "init",
                      todo |-> WritesOf(InitFields, RunInitState(c))]]
    /\ UNCHANGED <<crawl, obs, site, job, files, lastExport, merge, cats,
                   frozen>>

\* The crawl calls progress_callback / chefs_progress_callback, which enters
\* its critical section.
CallbackAcquire ==
    /\ sync.w.pc = "idle" /\ sync.w.phase = "run"
    /\ LockFree(sync.w.slot)
    /\ \E p \in PollCalls :
         sync' = [sync EXCEPT
            !.lock[sync.w.slot] = "w",
            !.w.pc = "in", !.w.section = "progress",
            !.w.todo = WritesOf(ProgressFields,
                                [progress |-> p[1], total |-> p[2],
                                 message |-> p[3]])]
    /\ UNCHANGED <<crawl, obs, site, job, files, lastExport, merge, cats,
                   frozen>>

\* The crawl has returned: the last critical section of the run function.
RunAcquireFinish ==
    /\ sync.w.pc = "idle" /\ sync.w.phase = "run"
    /\ LockFree(sync.w.slot)
    /\ \E results \in PollResults :
         sync' = [sync EXCEPT
            !.lock[sync.w.slot] = "w",
            !.w.pc = "in", !.w.section = "finish", !.w.phase = "none",
            !.w.todo = WritesOf(FinishFields,
                                RunFinishState([ret |-> results],
                                               job[sync.w.slot]))]
    /\ UNCHANGED <<crawl, obs, site, job, files, lastExport, merge, cats,
                   frozen>>

\* One assignment to the job state inside a critical section.
SectionWrite ==
    LET w == sync.w IN
    /\ w.pc = "in" /\ w.todo # <<>>
    /\ job' = [job EXCEPT ![w.slot][Head(w.todo)[1]] = Head(w.todo)[2]]
    /\ sync' = [sync EXCEPT !.w.todo = Tail(@)]
    /\ UNCHANGED <<crawl, obs, site, files, lastExport, merge, cats, frozen>>

\* The end of the `with` block of the crawl thread.
SectionRelease ==
    LET w == sync.w IN
    /\ w.pc = "in" /\ w.todo = <<>>
    /\ sync' = [sync EXCEPT !.lock[w.slot] = "",
                            !.w.pc = "idle",
                            !.committed[w.slot] = job[w.slot]]
    /\ UNCHANGED <<crawl, obs, site, job, files, lastExport, merge, cats,
                   frozen>>

\* api_progress, api_results or api_export (and their chefs twins) enters
\* its critical section.
HandlerAcquire ==
    /\ sync.r.pc \in {"idle", "answered"}
    /\ \E slot \in Slots, handler \in Handlers :
         /\ LockFree(slot)
         /\ sync' = [sync EXCEPT
               !.lock[slot] = "r",
               !.r = [pc |-> "in", slot |-> slot, handler |-> handler,
                      todo |-> ReadFields(handler), snap |-> IdleJob,
                      at |-> sync.committed[slot]]]
    /\ UNCHANGED <<crawl, obs, site, job, files, lastExport, merge, cats,
                   frozen>>

\* One read of the job state inside the handler's critical section.
HandlerRead ==
    LET r == sync.r IN
    /\ r.pc = "in" /\ r.todo # <<>>
    /\ sync' = [sync EXCEPT !.r.snap[Head(r.todo)] = job[r.slot][Head(r.todo)],
                            !.r.todo = Tail(@)]
    /\ UNCHANGED <<crawl, obs, site, job, files, lastExport, merge, cats,
                   frozen>>

\* The end of the handler's `with` block: the answer is what was read.
HandlerRelease ==
    LET r == sync.r IN
    /\ r.pc = "in" /\ r.todo = <<>>
    /\ sync' = [sync EXCEPT !.lock[r.slot] = "", !.r.pc = "answered"]
    /\ UNCHANGED <<crawl, obs, site, job, files, lastExport, merge, cats,
                   frozen>>

\* ------------------------------------------ PepitesScraper.fetch_categories
\* `for page in range(5)`: the homepage pages scanned for tags.
HomePages == 5

\* count = None.
NoCount == 0 - 1

\* An href under /startup-collection/: the slug and what follows it.
Href(slug, query) == [slug |-> slug, query |-> query]

\* href.split("/startup-collection/")[-1]: the sidebar keeps the query.
SidebarSlug(href) == <<href.slug, href.query>>

\* href.split("/startup-collection/")[-1].split("?")[0]: the tag scans drop
\* it.
TagSlug(href) == <<href.slug, "">>

\* The empty string, as a slug.
EmptySlug == <<"", "">>

\* digits.isdigit() and int(digits), on the texts of CountTexts.
CountTexts == {"", "42", "4x"}
CountOf(has_count_el, digits) ==
    IF has_count_el /\ digits = "42" THEN 42 ELSE NoCount

\* One div of the sidebar: whether it has a name link and a count element,
\* and their texts.
SidebarDiv(name_el, name, href, count_el, digits) ==
    [name_el |-> name_el, name |-> name, href |-> href,
     count_el |-> count_el, digits |-> digits]

\* A tag link: its text, its href, and whether the href is under
\* /startup-collection/.
TagLink(name, href, coll) == [name |-> name, href |-> href, coll |-> coll]

\* cats, a dict in insertion order: one entry per slug.
Entry(slug, name, count) == [slug |-> slug, name |-> name, count |-> count]

HasSlug(d, slug) == \E i \in DOMAIN d : d[i].slug = slug

\* cats[slug] = {...}: a slug the dict holds keeps its place.
DictSet(d, e) ==
    IF HasSlug(d, e.slug)
    THEN [i \in DOMAIN d |-> IF d[i].slug = e.slug THEN e ELSE d[i]]
    ELSE Append(d, e)

\* The loop over the divs of the sidebar.
RECURSIVE SidebarScan(_, _)
SidebarScan(d, divs) ==
    IF divs = <<>> THEN d
    ELSE LET div == Head(divs)
             slug == SidebarSlug(div.href)
             e == Entry(slug, div.name, CountOf(div.count_el, div.digits))
         IN  SidebarScan(IF div.name_el /\ slug # EmptySlug
                         THEN DictSet(d, e) ELSE d,
                         Tail(divs))

\* Mutant: a scanned tag replaces the entry its slug has.
TagEntry_Overwrite(d, a) ==
    IF a.coll /\ TagSlug(a.href) # EmptySlug /\ a.name # ""
    THEN DictSet(d, Entry(TagSlug(a.href), a.name, NoCount))
    ELSE d

\* What one tag link adds to the dict: `if slug and slug not in cats`, the
\* name being non-empty.
TagEntry(d, a) ==
    IF a.coll /\ TagSlug(a.href) # EmptySlug /\ a.name # ""
         /\ ~HasSlug(d, TagSlug(a.href))
    THEN Append(d, Entry(TagSlug(a.href), a.name, NoCount))
    ELSE d

\* The loops over the tag links of a page.
RECURSIVE TagScan(_, _)
TagScan(d, links) ==
    IF links = <<>> THEN d ELSE TagScan(TagEntry(d, Head(links)), Tail(links))

\* The name links of the sidebar are links under /startup-collection/ too:
\* soup.select("a[href*='/startup-collection/']") yields them with the tags.
RECURSIVE SidebarAnchors(_)
SidebarAnchors(divs) ==
    IF divs = <<>> THEN <<>>
    ELSE (IF Head(divs).name_el
          THEN <<TagLink(Head(divs).name, Head(divs).href, TRUE)>>
          ELSE <<>>) \o SidebarAnchors(Tail(divs))

\* x[1]["name"].lower() on the names of the model, and its place in the
\* order of strings.
Lower(name) ==
    CASE name = "SaaS" -> "saas"
      [] name = "AI" -> "ai"
      [] OTHER -> name

LowerRank(name) ==
    CASE Lower(name) = "" -> 0
      [] Lower(name) = "ai" -> 1
      [] Lower(name) = "saas" -> 2
      [] OTHER -> 3

\* sorted(cats.items(), key=...): a stable sort on the lowered name.
RECURSIVE InsertSorted(_, _)
InsertSorted(sorted, e) ==
    IF sorted = <<>> THEN <<e>>
    ELSE IF LowerRank(Head(sorted).name) <= LowerRank(e.name)
         THEN <<Head(sorted)>> \o InsertSorted(Tail(sorted), e)
         ELSE <<e>> \o sorted

RECURSIVE SortedByName(_)
SortedByName(d) ==
    IF d = <<>> THEN <<>>
    ELSE InsertSorted(SortedByName(SubSeq(d, 1, Len(d) - 1)), d[Len(d)])

\* The pages the model serves to fetch_categories.
SidebarDivs ==
    { SidebarDiv(TRUE, "SaaS", Href("saas", ""), TRUE, "42"),
      SidebarDiv(TRUE, "SaaS", Href("saas", "?p"), TRUE, "4x"),
      SidebarDiv(TRUE, "AI", Href("ai", ""), FALSE, ""),
      SidebarDiv(TRUE, "x", Href("", ""), TRUE, "42"),
      SidebarDiv(FALSE, "", Href("ai", ""), TRUE, "42") }

TagLinks ==
    { TagLink("saas", Href("saas", "?p"), TRUE),
      TagLink("ai", Href("ai", ""), TRUE),
      TagLink("", Href("saas", ""), TRUE),
      TagLink("x", Href("", ""), TRUE),
      TagLink("x", Href("saas", ""), FALSE) }

SeqsUpTo(S, n) == UNION {[1..k -> S] : k \in 0..n}

NoCats ==
    [pc |-> "off", sidebar |-> <<>>, scanned |-> {}, cats |-> <<>>,
     page |-> 0, ret |-> <<>>]

\* The first request: the sidebar and the tag links of its page, or the
\* request raises and the dict stays empty.
FC_Sidebar ==
    /\ cats.pc = "start"
    /\ \/ \E divs \in SeqsUpTo(SidebarDivs, MaxSidebar),
             links \in SeqsUpTo(TagLinks, MaxTags) :
            LET all == SidebarAnchors(divs) \o links IN
            cats' = [cats EXCEPT
               !.sidebar = divs,
               !.scanned = {TagSlug(all[i].href) :
                               i \in {j \in DOMAIN all : all[j].coll}},
               !.cats = TagScan(SidebarScan(<<>>, divs), all),
               !.pc = "home"]
       \/ cats' = [cats EXCEPT !.pc = "home"]
    /\ UNCHANGED <<crawl, obs, site, job, files, lastExport, merge, sync,
                   frozen>>

\* One iteration of the loop over the homepage pages; a request that raises
\* ends the loop.
FC_Home ==
    /\ cats.pc = "home"
    /\ IF cats.page >= HomePages
       THEN cats' = [cats EXCEPT !.pc = "sort"]
       ELSE \/ \E links \in SeqsUpTo(TagLinks, MaxTags) :
                 cats' = [cats EXCEPT
                    !.scanned = @ \cup {TagSlug(links[i].href) :
                                          i \in {j \in DOMAIN links :
                                                   links[j].coll}},
                    !.cats = TagScan(@, links),
                    !.page = @ + 1]
            \/ cats' = [cats EXCEPT !.pc = "sort"]
    /\ UNCHANGED <<crawl, obs, site, job, files, lastExport, merge, sync,
                   frozen>>

\* return dict(sorted(...)).
FC_Return ==
    /\ cats.pc = "sort"
    /\ cats' = [cats EXCEPT !.ret = SortedByName(cats.cats), !.pc = "returned"]
    /\ UNCHANGED <<crawl, obs, site, job, files, lastExport, merge, sync,
                   frozen>>

\* --------------------------------------------------------- specifications
NoSite == [records |-> 0, batch |-> MaxBatch, chefs |-> 0, failing |-> ""]
FailingNoms == {"", "a"}
ChefsSizes == {0, 1, PAGE_SIZE, PAGE_SIZE + 1}
MaxRecordsArgs == {0, 1, PAGE_SIZE + 1}

Quiet ==
    /\ job = [s \in Slots |-> IdleJob]
    /\ files = 0
    /\ lastExport = NoExport
    /\ obs = [t \in Threads |-> NoObs]
    /\ sync = NoSync
    /\ frozen = [s \in Slots |-> FALSE]

\* A direct call of scrape() by thread t1.
InitScrape ==
    /\ \E n \in 0..MaxNumPages, d \in BOOLEAN, cb \in {TRUE} :
         crawl = [t \in Threads |->
            IF t = "t1"
            THEN [IdleCrawl EXCEPT !.mode = "scrape", !.pc = "s_loop",
                     !.num_pages = n, !.with_details = d,
                     !.total_steps = IF n = 0 THEN 1 ELSE n,
                     !.progress_cb = cb, !.result_cb = cb]
            ELSE IdleCrawl]
    /\ \E r \in 0..MaxRecords, f \in FailingNoms :
         site = [records |-> r, batch |-> MaxBatch, chefs |-> 0,
                 failing |-> f]

\* A direct call of scrape_all_categories() by thread t1.
InitAll ==
    /\ \E d \in BOOLEAN, cb \in {TRUE} :
         crawl = [t \in Threads |->
            IF t = "t1"
            THEN [IdleCrawl EXCEPT !.mode = "all", !.pc = "a_start",
                     !.with_details = d,
                     !.progress_cb = cb, !.result_cb = cb]
            ELSE IdleCrawl]
    /\ \E r \in 0..MaxCatRecords, f \in FailingNoms :
         site = [records |-> r, batch |-> MaxBatch, chefs |-> 0,
                 failing |-> f]

\* A direct call of ChefsEtablissementScraper.scrape() by thread t1.
InitChefs ==
    /\ \E m \in MaxRecordsArgs, cb \in {TRUE} :
         crawl = [t \in Threads |->
            IF t = "t1"
            THEN [IdleCrawl EXCEPT !.mode = "chefs", !.pc = "c_count",
                     !.max_records = m, !.progress_cb = cb]
            ELSE IdleCrawl]
    /\ \E n \in ChefsSizes :
         site = [records |-> 0, batch |-> MaxBatch, chefs |-> n,
                 failing |-> ""]

InitCrawl ==
    /\ Quiet
    /\ cats = NoCats
    /\ merge = NoMerge
    /\ InitScrape \/ InitAll \/ InitChefs

Pool(t) ==
    \E i \in DOMAIN crawl[t].fut :
        W_Dequeue(t, i) \/ W_Check(t, i) \/ W_Request(t, i) \/ W_Finish(t, i)

ScrapeSteps(t) ==
    S_LoopTest(t) \/ S_Progress(t) \/ S_Fetch(t) \/ S_After(t) \/ S_Final(t)

AllSteps(t) ==
    \/ A_Categories(t) \/ A_Category(t) \/ A_LoopTest(t) \/ A_Fetch(t)
    \/ A_After(t) \/ A_Final(t)

ChefsSteps(t) == C_Count(t) \/ C_Request(t) \/ C_Progress(t) \/ C_Final(t)

NextCrawl ==
    \E t \in Threads :
        \/ ScrapeSteps(t) \/ AllSteps(t) \/ ChefsSteps(t)
        \/ Pool(t) \/ M_Iter(t) \/ M_Exit(t)
        \/ stop(t)

\* Direct calls of the three crawls, with a concurrent stop().
SpecCrawl == InitCrawl /\ [][NextCrawl]_vars

\* The web application: no crawl runs.
InitJob ==
    /\ Quiet
    /\ cats = NoCats
    /\ merge = NoMerge
    /\ crawl = [t \in Threads |-> IdleCrawl]
    /\ site = [records |-> JobMaxRecords, batch |-> MaxBatch,
               chefs |-> JobMaxRecords, failing |-> ""]

Supervisor(t) ==
    \/ \E slot \in Slots : ApiCheck(t, slot)
    \/ ApiConflict(t) \/ ApiStart(t) \/ RunInit(t) \/ RunFinish(t)

NextJob ==
    \E t \in Threads :
        \/ Supervisor(t)
        \/ ScrapeSteps(t) \/ ChefsSteps(t)
        \/ Pool(t) \/ M_Iter(t) \/ M_Exit(t)

\* The web application under concurrent start requests.
SpecJob == InitJob /\ [][NextJob]_vars

\* A start request that arrives while the slot's job is shown running.
LateRequest(t) ==
    \/ \E slot \in Slots : StartRejected(slot) /\ ApiCheck(t, slot)
    \/ ApiConflict(t)

NextExport ==
    \/ Supervisor("t1") \/ ScrapeSteps("t1") \/ ChefsSteps("t1")
    \/ Pool("t1") \/ M_Iter("t1") \/ M_Exit("t1")
    \/ LateRequest("t2")
    \/ \E slot \in Slots, fmt \in Formats : api_export(slot, fmt)

\* The web application with one crawl at a time, start requests that arrive
\* during it, and the export handlers.
SpecExport == InitJob /\ [][NextExport]_vars

NextStop ==
    \/ Supervisor("t1") \/ ScrapeSteps("t1") \/ ChefsSteps("t1")
    \/ Pool("t1") \/ M_Iter("t1") \/ M_Exit("t1")
    \/ LateRequest("t2")
    \/ \E slot \in Slots : StopRequest(slot)

\* The web application with one crawl at a time and clients that ask to
\* stop it.
SpecStop == InitJob /\ [][NextStop]_vars

\* A direct call of scrape(num_pages=1, with_details=True) on a listing
\* whose first page has up to PoolRecords records.
InitPool ==
    /\ Quiet
    /\ merge = NoMerge
    /\ cats = NoCats
    /\ crawl = [t \in Threads |->
          IF t = "t1"
          THEN [IdleCrawl EXCEPT !.mode = "scrape", !.pc = "s_loop",
                   !.num_pages = 1, !.with_details = TRUE,
                   !.total_steps = 1,
                   !.progress_cb = TRUE, !.result_cb = TRUE]
          ELSE IdleCrawl]
    /\ site = [records |-> PoolRecords, batch |-> PoolRecords, chefs |-> 0,
               failing |-> ""]

NextPool ==
    \/ ScrapeSteps("t1")
    \/ Pool("t1") \/ M_Iter("t1") \/ M_Exit("t1")
    \/ stop("t1")

\* The detail phase over more records than the pool has workers.
SpecPool == InitPool /\ [][NextPool]_vars

InitMerge ==
    /\ Quiet
    /\ cats = NoCats
    /\ crawl = [t \in Threads |-> IdleCrawl]
    /\ site = NoSite
    /\ \E s \in Startups, e \in Extras :
         merge = [pc |-> "in", startup |-> s, extra |-> e, fn |-> "",
                  out |-> s]

NextMerge == MergeScrape \/ MergeAll

\* One merge of a detail page's fields into a record.
SpecMerge == InitMerge /\ [][NextMerge]_vars

\* One call of fetch_categories().
InitCats ==
    /\ Quiet
    /\ merge = NoMerge
    /\ crawl = [t \in Threads |-> IdleCrawl]
    /\ site = NoSite
    /\ cats = [NoCats EXCEPT !.pc = "start"]

NextCats == FC_Sidebar \/ FC_Home \/ FC_Return

SpecCats == InitCats /\ [][NextCats]_vars

\* One crawl thread in its run function and one request handler, on the
\* locks of the two job slots.
InitPoll ==
    /\ Quiet
    /\ merge = NoMerge
    /\ crawl = [t \in Threads |-> IdleCrawl]
    /\ site = NoSite
    /\ cats = NoCats

NextPoll ==
    \/ RunAcquireInit \/ CallbackAcquire \/ RunAcquireFinish
    \/ SectionWrite \/ SectionRelease
    \/ HandlerAcquire \/ HandlerRead \/ HandlerRelease

SpecPoll == InitPoll /\ [][NextPoll]_vars

Spec == SpecCrawl


\* ------------------------------------------------------------------ claims
Last(seq) == seq[Len(seq)]

RECURSIVE Flatten(_)
Flatten(batches) ==
    IF batches = <<>> THEN <<>> ELSE Head(batches) \o Flatten(Tail(batches))

BatchesOf(log) == [i \in DOMAIN log |-> log[i].batch]

\* The direct calls of each crawl.
DirectCalls(mode) ==
    {t \in Threads : crawl[t].mode = mode /\ ~crawl[t].in_job}

Returned(t) == crawl[t].pc = "returned"

NoError(log) == \A i \in DOMAIN log : log[i].kind = "ok"
AllPagesFull(log) ==
    \A i \in DOMAIN log : log[i].kind = "ok" /\ log[i].batch # <<>>

\* Same record object: the listing fields no enrichment touches.
SameRecord(r, s) == r.nom = s.nom /\ r.detail_url = s.detail_url

\* C1: each job slot has at most one crawl thread at any time, under every
\* interleaving of start requests.
C1_SingleCrawlPerSlot ==
    \A slot \in Slots : Cardinality(SlotThreads(slot)) <= 1

C3_AtMostNPages ==
    \A t \in DirectCalls("scrape") :
        LET log == obs[t].reqLog
            N == crawl[t].num_pages
        IN  N > 0 =>
              /\ Len(log) <= N
              /\ \A i \in DOMAIN log : log[i].page = i - 1
              /\ \A i \in DOMAIN log :
                    i < Len(log) => log[i].kind = "ok" /\ log[i].batch # <<>>

\* scrape() returned after exactly N >= 2 page requests although the site
\* held more records.
C3_Witness ==
    \E t \in DirectCalls("scrape") :
        /\ Returned(t) /\ ~obs[t].stopped
        /\ crawl[t].num_pages >= 2
        /\ Len(obs[t].reqLog) = crawl[t].num_pages
        /\ AllPagesFull(obs[t].reqLog)
        /\ Len(crawl[t].ret) < site.records

\* C4: with num_pages = 0, no stop and no fetch error, pages 0, 1, 2, ... are
\* requested until one is empty: k non-empty pages then an empty one give
\* k + 1 requests and k result calls, the i-th with the batch of page i.
C4_UnboundedUntilEmpty ==
    \A t \in DirectCalls("scrape") :
        LET log == obs[t].reqLog
            full == {i \in DOMAIN log : log[i].batch # <<>>}
            k == Cardinality(full)
        IN  (crawl[t].num_pages = 0 /\ ~obs[t].stopped /\ NoError(log)) =>
              /\ \A i \in DOMAIN log : log[i].page = i - 1
              /\ \A i \in DOMAIN log : i < Len(log) => i \in full
              /\ obs[t].resultLog = [i \in 1..k |-> log[i].batch]
              /\ crawl[t].pc \notin {"s_loop", "s_progress", "s_fetch"} =>
                    /\ Len(log) = k + 1
                    /\ Last(log).batch = <<>>

\* An unbounded scrape() returned after two or more non-empty pages.
C4_Witness ==
    \E t \in DirectCalls("scrape") :
        /\ Returned(t) /\ ~obs[t].stopped
        /\ crawl[t].num_pages = 0
        /\ NoError(obs[t].reqLog)
        /\ Len(obs[t].reqLog) >= 3

\* The identity key of the claim: detail_url, or nom when it is empty.
ClaimKey(r) == IF r.detail_url = "" THEN r.nom ELSE r.detail_url

DistinctKeys(records) ==
    \A i, j \in DOMAIN records :
        i # j => ClaimKey(records[i]) # ClaimKey(records[j])

\* The first record of `records` that has the key of r.
FirstWithKey(records, r) ==
    records[CHOOSE i \in DOMAIN records :
               /\ ClaimKey(records[i]) = ClaimKey(r)
               /\ \A j \in 1..(i - 1) : ClaimKey(records[j]) # ClaimKey(r)]

\* C5: scrape_all_categories() delivers each identity key to the result
\* callback at most once, and returns one record per key listed, the first
\* one listed with that key.
C5_Dedup ==
    \A t \in DirectCalls("all") :
        LET delivered == Flatten(obs[t].resultLog)
            listed == Flatten(BatchesOf(obs[t].reqLog))
            held == crawl[t].all_startups
        IN  /\ DistinctKeys(delivered)
            /\ DistinctKeys(held)
            /\ {ClaimKey(held[i]) : i \in DOMAIN held}
                  = {ClaimKey(listed[i]) : i \in DOMAIN listed}
            /\ \A i \in DOMAIN held :
                  SameRecord(held[i], FirstWithKey(listed, held[i]))
            /\ (Returned(t) /\ crawl[t].total_cats > 0) =>
                  crawl[t].ret = held

\* scrape_all_categories() returned after it was listed two different
\* records with one key, and the same record twice.
C5_Witness ==
    \E t \in DirectCalls("all") :
        LET listed == Flatten(BatchesOf(obs[t].reqLog)) IN
        /\ Returned(t)
        /\ Len(crawl[t].ret) >= 2
        /\ \E i, j \in DOMAIN listed :
              /\ i < j /\ listed[i] = listed[j]
        /\ \E i, j \in DOMAIN listed :
              /\ ClaimKey(listed[i]) = ClaimKey(listed[j])
              /\ listed[i].nom # listed[j].nom

EnrichmentKeys == PlainKeys \cup {"site_web"}

\* C6, as stated: for every enrichment field an empty incoming value leaves
\* the record's value and a non-empty incoming value replaces it.
C6_MergeAllFields ==
    merge.pc = "out" =>
        \A k \in EnrichmentKeys :
            merge.out[k] = IF merge.extra[k] = "" THEN merge.startup[k]
                           ELSE merge.extra[k]

\* C6, amended: that holds of fondateur, twitter, linkedin and localisation;
\* site_web takes a non-empty incoming value only when the record's site_web
\* is empty, and keeps its value otherwise; no other field changes.
C6_MergeRule ==
    merge.pc = "out" =>
        /\ \A k \in PlainKeys :
              merge.out[k] = IF merge.extra[k] = "" THEN merge.startup[k]
                             ELSE merge.extra[k]
        /\ merge.out.site_web =
              IF merge.startup.site_web = "" THEN merge.extra.site_web
              ELSE merge.startup.site_web
        /\ merge.out.nom = merge.startup.nom
        /\ merge.out.detail_url = merge.startup.detail_url

\* A merge of scrape() where the record and the detail page both have a
\* site_web, the record has a fondateur and the page has none.
C6_Witness ==
    /\ merge.pc = "out" /\ merge.fn = "scrape"
    /\ merge.startup.site_web # "" /\ merge.extra.site_web # ""
    /\ merge.startup.fondateur # "" /\ merge.extra.fondateur = ""
    /\ merge.extra.twitter # ""

\* Whether the crawl of t makes progress calls at all.
CallsProgress(t) ==
    crawl[t].mode \in {"scrape", "chefs"}
        \/ (crawl[t].mode = "all" /\ crawl[t].total_cats > 0)

\* C7: the last progress call of a completed, non-cancelled run of each of
\* the three crawls has current = total.
C7_TerminalProgress ==
    \A t \in Threads :
        (~crawl[t].in_job /\ Returned(t) /\ ~crawl[t].stop_requested
            /\ CallsProgress(t)) =>
              /\ obs[t].progLog # <<>>
              /\ Last(obs[t].progLog)[1] = Last(obs[t].progLog)[2]

\* A non-cancelled scrape() returned before the pages asked for were all
\* scraped.
C7_Witness ==
    \E t \in DirectCalls("scrape") :
        /\ Returned(t) /\ ~crawl[t].stop_requested
        /\ crawl[t].num_pages > 0
        /\ crawl[t].page > 0
        /\ crawl[t].page < crawl[t].num_pages

\* scrape(num_pages = N, with_details = False) was answered N non-empty
\* pages and has returned.
ScrapedNPages(t) ==
    /\ Returned(t)
    /\ ~crawl[t].with_details
    /\ crawl[t].num_pages > 0
    /\ Len(obs[t].reqLog) = crawl[t].num_pages
    /\ AllPagesFull(obs[t].reqLog)

\* C8: then the returned sequence is the concatenation of the page batches
\* in page order and the result callback was called N times, the i-th call
\* with the records of page i.
C8_ConcatInPageOrder ==
    \A t \in DirectCalls("scrape") :
        ScrapedNPages(t) =>
            /\ crawl[t].ret = Flatten(BatchesOf(obs[t].reqLog))
            /\ obs[t].resultLog = BatchesOf(obs[t].reqLog)
            /\ Len(obs[t].resultLog) = crawl[t].num_pages

\* Two pages of different sizes were scraped.
C8_Witness ==
    \E t \in DirectCalls("scrape") :
        /\ ScrapedNPages(t)
        /\ crawl[t].num_pages = 2
        /\ Len(obs[t].reqLog[1].batch) = 2
        /\ Len(obs[t].reqLog[2].batch) = 1

\* C9, as stated: the final progress call of such a crawl is (N, N, ...).
C9_FinalProgressIsN ==
    \A t \in DirectCalls("scrape") :
        ScrapedNPages(t) =>
            /\ Last(obs[t].progLog)[1] = crawl[t].num_pages
            /\ Last(obs[t].progLog)[2] = crawl[t].num_pages

\* C9, amended: the final progress call is (1, 1, "Terminé !") whatever N,
\* and the progress call before it, the one of the last page, is (N - 1, N).
C9_FinalProgressIsOne ==
    \A t \in DirectCalls("scrape") :
        ScrapedNPages(t) =>
            LET log == obs[t].progLog
                N == crawl[t].num_pages
            IN  /\ Len(log) = N + 1
                /\ Last(log) = <<1, 1, "Termine">>
                /\ log[N] = <<N - 1, N, "page">>

\* Two pages were scraped out of two.
C9_Witness ==
    \E t \in DirectCalls("scrape") :
        ScrapedNPages(t) /\ crawl[t].num_pages = 2 /\ ~obs[t].stopped

\* The step is an export request.
ExportStep == lastExport'.n # lastExport.n

\* C10, as stated: an export with an empty result set is answered no-data,
\* an export with a format other than csv and excel is answered
\* unsupported-format, and in both cases no file is written and the job
\* state is unchanged.
C10_ExportRejections ==
    [][ExportStep =>
        LET e == lastExport' IN
        /\ job[e.slot].results = <<>> =>
              e.answer = "no_data" /\ files' = files /\ job' = job
        /\ e.fmt \notin {"csv", "excel"} =>
              e.answer = "unsupported" /\ files' = files /\ job' = job
      ]_vars

\* C10, amended: the unsupported-format answer is given when the result set
\* is not empty; with an empty result set the answer is no-data whatever the
\* format.
C10_ExportRejectionsByCase ==
    [][ExportStep =>
        LET e == lastExport' IN
        /\ job[e.slot].results = <<>> =>
              e.answer = "no_data" /\ files' = files /\ job' = job
        /\ (job[e.slot].results # <<>> /\ e.fmt \notin {"csv", "excel"}) =>
              e.answer = "unsupported" /\ files' = files /\ job' = job
      ]_vars

\* An export of a non-empty result set was refused for its format after a
\* file had been written.
C10_Witness ==
    /\ lastExport.answer = "unsupported"
    /\ job[lastExport.slot].results # <<>>
    /\ files > 0

\* The divs of the sidebar that set an entry, and the slugs they set.
SettingDivs(divs) ==
    {i \in DOMAIN divs :
        divs[i].name_el /\ SidebarSlug(divs[i].href) # EmptySlug}

SidebarSlugs(divs) == {SidebarSlug(divs[i].href) : i \in SettingDivs(divs)}

\* The last div of the sidebar that sets `slug`.
LastDivOf(divs, slug) ==
    divs[CHOOSE i \in SettingDivs(divs) :
            /\ SidebarSlug(divs[i].href) = slug
            /\ \A j \in SettingDivs(divs) :
                  SidebarSlug(divs[j].href) = slug => j <= i]

EntryOf(d, slug) == d[CHOOSE i \in DOMAIN d : d[i].slug = slug]

\* C11: the mapping fetch_categories builds and returns has, for every slug
\* the sidebar sets, the sidebar's name and count, whatever the tag scans
\* found; every other entry comes from a tag scan and has count None; no
\* slug has two entries.
C11_SidebarWins ==
    LET d == IF cats.pc = "returned" THEN cats.ret ELSE cats.cats
        side == cats.sidebar
    IN  /\ \A slug \in SidebarSlugs(side) :
              /\ HasSlug(d, slug)
              /\ EntryOf(d, slug).name = LastDivOf(side, slug).name
              /\ EntryOf(d, slug).count =
                    CountOf(LastDivOf(side, slug).count_el,
                            LastDivOf(side, slug).digits)
        /\ \A i \in DOMAIN d :
              d[i].slug \notin SidebarSlugs(side) =>
                  d[i].count = NoCount /\ d[i].slug \in cats.scanned
        /\ \A i, j \in DOMAIN d : d[i].slug = d[j].slug => i = j
        /\ cats.pc \in {"start", "off"} => d = <<>>

\* fetch_categories returned the sidebar's saas entry with its count 42
\* after a homepage page carried a saas tag, and an entry for a tag the
\* sidebar does not have, sorted before it.
C11_Witness ==
    /\ cats.pc = "returned" /\ cats.page >= 1
    /\ Len(cats.ret) = 2
    /\ cats.ret[2] = Entry(<<"saas", "">>, "SaaS", 42)
    /\ cats.ret[1] = Entry(<<"ai", "">>, "ai", NoCount)
    /\ cats.cats[1] = Entry(<<"saas", "">>, "SaaS", 42)
    /\ <<"saas", "">> \in cats.scanned

\* The pcs of scrape() after its page loop.
AfterLoopPcs == {"s_after", "pool", "pool_exit", "s_final", "returned"}

\* The records the listing requests of thread t were answered, in order.
ListedRecords(t) == Flatten(BatchesOf(obs[t].reqLog))

\* The record of the listing that `r` was built from.
ListedAs(t, r) ==
    IF crawl[t].mode = "all" THEN FirstWithKey(ListedRecords(t), r)
    ELSE CHOOSE s \in {ListedRecords(t)[i] : i \in DOMAIN ListedRecords(t)} :
            SameRecord(s, r)

\* C12: a listing request that raises ends its page loop, the exception
\* does not leave the crawl, and the records of the pages before it are
\* kept and returned; a detail request that raises leaves its record as
\* listed, the other records with a detail_url are enriched and the crawl
\* returns.
C12_ErrorsContained ==
    \A t \in DirectCalls("scrape") \cup DirectCalls("all") :
        LET c == crawl[t]
            log == obs[t].reqLog
            listed == ListedRecords(t)
        IN  /\ c.pc # "raised"
            /\ \A i \in DOMAIN log :
                  log[i].kind = "error" =>
                     IF c.mode = "scrape"
                     THEN i = Len(log) /\ c.pc \in AfterLoopPcs
                     ELSE /\ i < Len(log) => log[i + 1].cat > log[i].cat
                          /\ i = Len(log) =>
                                \/ c.cat_idx > log[i].cat
                                \/ c.pc \notin {"a_cat", "a_loop", "a_fetch"}
            /\ c.mode = "scrape" =>
                  /\ Len(c.all_startups) = Len(listed)
                  /\ \A i \in DOMAIN listed :
                        SameRecord(c.all_startups[i], listed[i])
            /\ (Returned(t) /\ c.total_cats > 0) =>
                  \A i \in DOMAIN listed :
                     \E j \in DOMAIN c.ret :
                        ClaimKey(c.ret[j]) = ClaimKey(listed[i])
            /\ (Returned(t) /\ c.mode = "scrape") =>
                  Len(c.ret) = Len(listed)
            /\ (Returned(t) /\ c.with_details /\ ~c.stop_requested) =>
                  \A i \in DOMAIN c.ret :
                     LET r == c.ret[i] IN
                     IF r.nom = site.failing \/ r.detail_url = ""
                     THEN r = ListedAs(t, r)
                     ELSE /\ r.fondateur = DetailPage(r.detail_url).fondateur
                          /\ r.fondateur # ""

\* scrape() returned the records of two pages after the request for the
\* third page raised; the detail request of the first record raised, and the
\* third record was enriched.
C12_Witness ==
    \E t \in DirectCalls("scrape") :
        LET log == obs[t].reqLog IN
        /\ Returned(t) /\ ~crawl[t].stop_requested /\ crawl[t].with_details
        /\ Len(log) = 3 /\ log[3].kind = "error"
        /\ site.failing = "a"
        /\ Len(crawl[t].ret) = 3
        /\ crawl[t].ret[1] = Card("a", "u1", "")
        /\ crawl[t].ret[3].nom = "c" /\ crawl[t].ret[3].fondateur = "f1"

\* C13: once a job has completed (running flipped from true to false), its
\* progress, total, message and results, and the flag itself, do not change
\* as long as no later start request is accepted.
C13_FrozenAfterCompletion ==
    [][\A slot \in Slots :
          (frozen[slot] /\ frozen'[slot]) => job'[slot] = job[slot]]_vars

\* C14: a stop request made while a crawl of the slot is running sets the
\* cancellation flag of that crawl.
C14_StopSetsFlag ==
    \A t \in Threads : obs[t].stopAsked => crawl[t].stop_requested

\* The set of the elements of a sequence.
Range(seq) == {seq[i] : i \in DOMAIN seq}

\* C15: the crawl thread writes the job state, and a handler reads it, only
\* while it holds the slot's lock, and never both at once; what a handler
\* answers is, field for field, the job state as the last completed
\* critical section left it, never a partly applied update.
C15_PollsSeeWholeUpdates ==
    LET w == sync.w
        r == sync.r
    IN  /\ w.pc = "in" => sync.lock[w.slot] = "w"
        /\ r.pc = "in" => sync.lock[r.slot] = "r"
        /\ ~(w.pc = "in" /\ r.pc = "in" /\ w.slot = r.slot)
        /\ \A slot \in Slots :
              sync.lock[slot] # "w" => job[slot] = sync.committed[slot]
        /\ r.pc = "answered" =>
              \A f \in Range(ReadFields(r.handler)) : r.snap[f] = r.at[f]

\* A status poll was answered with the progress of a running job, and the
\* crawl thread is now in the middle of its next update of that job.
C15_Witness ==
    LET w == sync.w
        r == sync.r
    IN  /\ r.pc = "answered" /\ r.handler = "progress"
        /\ r.snap.running /\ r.snap.progress = 1 /\ r.snap.total = 2
        /\ w.pc = "in" /\ w.slot = r.slot /\ w.todo # <<>>
        /\ job[w.slot] # sync.committed[w.slot]

\* The records of the i-th answered page that no earlier record of the log
\* shares its key with: all of them in scrape(), which does not deduplicate.
FreshOf(t, i) ==
    LET log == obs[t].reqLog
        listed == ListedRecords(t)
        off == Len(Flatten(BatchesOf(SubSeq(log, 1, i - 1))))
        idx == [k \in 1..Len(log[i].batch) |-> off + k]
        IsFresh(m) ==
            \/ crawl[t].mode = "scrape"
            \/ \A n \in 1..(m - 1) : ClaimKey(listed[n]) # ClaimKey(listed[m])
        kept == SelectSeq(idx, IsFresh)
    IN  [k \in DOMAIN kept |-> listed[kept[k]]]

NonEmpty(seq) == seq # <<>>

\* C16: the page requests of a listing, and of each category, have the
\* indices 0, 1, 2, ... in order, each made after the page before it was
\* answered records; the batches delivered to the result callback are those
\* of the pages answered so far, in page order.
C16_PagesInOrder ==
    \A t \in DirectCalls("scrape") \cup DirectCalls("all") :
        LET log == obs[t].reqLog IN
        /\ log # <<>> => log[1].page = 0
        /\ crawl[t].mode = "scrape" => \A i \in DOMAIN log : log[i].cat = 0
        /\ \A i \in 1..(Len(log) - 1) :
              IF log[i + 1].cat = log[i].cat
              THEN /\ log[i + 1].page = log[i].page + 1
                   /\ log[i].kind = "ok" /\ log[i].batch # <<>>
              ELSE /\ log[i + 1].cat > log[i].cat
                   /\ log[i + 1].page = 0
        /\ obs[t].resultLog =
              SelectSeq([i \in DOMAIN log |-> FreshOf(t, i)], NonEmpty)

\* scrape() has requested the pages 0, 1 and 2 and delivered two batches.
C16_Witness ==
    \E t \in DirectCalls("scrape") :
        /\ Len(obs[t].reqLog) = 3
        /\ obs[t].reqLog[3].page = 2
        /\ Len(obs[t].resultLog) = 2

\* The pcs of the listing phases of scrape() and scrape_all_categories().
ListingPcs ==
    {"s_loop", "s_progress", "s_fetch", "s_after",
     "a_start", "a_cat", "a_loop", "a_fetch", "a_after"}

\* The futures whose fetch_detail call has started and not ended.
InFlight(fut) ==
    {i \in DOMAIN fut : fut[i] \in {"running", "checked", "inflight"}}

\* C17: at every moment at most MAX_WORKERS detail fetches are in flight,
\* and none has started as long as the crawl is in its listing phase.
C17_BoundedPool ==
    \A t \in Threads :
        LET c == crawl[t] IN
        /\ Cardinality(InFlight(c.fut)) <= MAX_WORKERS
        /\ c.pc \in ListingPcs =>
              /\ obs[t].nDetail = 0
              /\ \A i \in DOMAIN c.fut : c.fut[i] \in {"queued", "none"}

\* Five records are to be enriched: four fetches are in flight, three of
\* them in their request, and the fifth waits in the queue.
C17_Witness ==
    \E t \in Threads :
        LET fut == crawl[t].fut IN
        /\ Len(fut) = 5
        /\ Cardinality(InFlight(fut)) = MAX_WORKERS
        /\ Cardinality({i \in DOMAIN fut : fut[i] = "inflight"}) = 3
        /\ fut[5] = "queued"

IsDetailCall(p) == p[3] = "detail"

\* The progress calls of the detail phase of thread t.
DetailCalls(t) == SelectSeq(obs[t].progLog, IsDetailCall)

\* C18: in scrape(with_details=True) a record without detail_url is never
\* fetched and stays as listed; every detail progress call has the number
\* of all collected records as total; the completed counts are 1, 2, ... in
\* order, up to that total when the run returns without cancellation.
C18_SkippedRecordsCount ==
    \A t \in DirectCalls("scrape") :
        LET c == crawl[t]
            calls == DetailCalls(t)
            listed == ListedRecords(t)
            withUrl == {i \in DOMAIN listed : listed[i].detail_url # ""}
        IN  /\ obs[t].nDetail <= Cardinality(withUrl)
            /\ \A i \in DOMAIN c.all_startups :
                  c.all_startups[i].detail_url = "" =>
                      c.all_startups[i] = listed[i]
            /\ \A k \in DOMAIN calls :
                  calls[k][1] = k /\ calls[k][2] = Len(c.all_startups)
            /\ (Returned(t) /\ ~c.stop_requested /\ c.with_details) =>
                  /\ Len(calls) = Len(c.ret)
                  /\ obs[t].nDetail = Cardinality(withUrl)

\* A non-cancelled scrape() with details returned three records, the second
\* without detail_url: two detail pages were fetched and three detail
\* progress calls made.
C18_Witness ==
    \E t \in DirectCalls("scrape") :
        /\ Returned(t) /\ ~crawl[t].stop_requested /\ crawl[t].with_details
        /\ Len(crawl[t].ret) = 3
        /\ crawl[t].ret[2] = Card("b", "", "w0")
        /\ obs[t].nDetail = 2
        /\ DetailCalls(t) = <<<<1, 3, "detail">>, <<2, 3, "detail">>,
                              <<3, 3, "detail">>>>

IsCategoryCall(p) == p[3] = "cat"

\* The index of the category that was started last when stop() was called;
\* -1 when none was.
CurrentAtStop(t) ==
    LET o == obs[t] IN
    IF o.stopPc \in {"a_loop", "a_fetch"} THEN o.stopCat
    ELSE IF o.stopPc = "a_cat" THEN o.stopCat - 1
    ELSE IF o.stopPc = "a_start" THEN 0 - 1
    ELSE crawl[t].total_cats - 1

\* C19: after stop(), scrape_all_categories() starts no category after the
\* current one: no category progress call and no page request is made for
\* a later category; a stop() during the listing phase keeps the detail
\* phase from running, with_details or not; the records the dedup mapping
\* held at the stop are returned.
C19_StopAbandonsCategories ==
    \A t \in DirectCalls("all") :
        LET o == obs[t]
            c == crawl[t]
            calls == SelectSeq(o.progLog, IsCategoryCall)
        IN  o.stopped =>
              /\ \A i \in DOMAIN o.reqLog : o.reqLog[i].cat <= CurrentAtStop(t)
              /\ \A i \in DOMAIN calls : calls[i][1] <= CurrentAtStop(t)
              /\ o.stopPc \in ListingPcs =>
                    /\ o.nDetail = 0
                    /\ DetailCalls(t) = <<>>
                    /\ c.fut = <<>>
                    /\ c.pc \notin {"pool", "pool_exit"}
              /\ (Returned(t) /\ c.total_cats > 0) =>
                    /\ Len(o.atStop) <= Len(c.ret)
                    /\ \A i \in DOMAIN o.atStop :
                          SameRecord(c.ret[i], o.atStop[i])
                    /\ o.stopPc \in ListingPcs =>
                          SubSeq(c.ret, 1, Len(o.atStop)) = o.atStop

\* scrape_all_categories(with_details=True) was stopped in the first of two
\* categories with records collected, and returned without a detail fetch.
C19_Witness ==
    \E t \in DirectCalls("all") :
        /\ Returned(t) /\ obs[t].stopped /\ crawl[t].with_details
        /\ obs[t].stopPc \in {"a_loop", "a_fetch"}
        /\ obs[t].stopCat = 0 /\ crawl[t].total_cats = 2
        /\ obs[t].atStop # <<>>
        /\ crawl[t].ret # <<>>
        /\ obs[t].nDetail = 0

IsTerminalCall(p) == p[3] = "Termine"

\* C20: every run of scrape() and of scrape_all_categories() that has a
\* progress callback and has returned made exactly one terminal progress
\* call, with current = total, after all its other progress calls.
C20_OneFinalProgressCall ==
    \A t \in DirectCalls("scrape") \cup DirectCalls("all") :
        (Returned(t) /\ crawl[t].progress_cb) =>
            LET log == obs[t].progLog IN
            /\ Len(SelectSeq(log, IsTerminalCall)) = 1
            /\ log # <<>>
            /\ IsTerminalCall(Last(log))
            /\ Last(log)[1] = Last(log)[2]

\* The threads that run a supervised crawl: past the first critical section
\* of their run function and not yet through the last.
Supervised(t) ==
    /\ crawl[t].in_job
    /\ crawl[t].pc \notin {"idle", "rejected", "accepted", "run_init"}

\* C21: while a supervised crawl is running, the results of its job are the
\* records of the pages the crawl has been answered so far.
C21_ResultsFollowTheCrawl ==
    \A t \in Threads :
        (Supervised(t) /\ crawl[t].mode = "scrape") =>
            LET results == job["scrape"].results
                collected == crawl[t].all_startups
            IN  /\ Len(results) = Len(collected)
                /\ \A i \in DOMAIN results :
                      SameRecord(results[i], collected[i])

\* C22: from the answer 'started' of an accepted start request until the
\* crawl it started has finished, the job of the slot shows running = true.
C22_RunningOnceStarted ==
    \A t \in Threads :
        (crawl[t].in_job /\ crawl[t].pc \notin {"idle", "rejected", "accepted"})
            => job[SlotOf(crawl[t])].running

\* --------------------------------------------------------------- liveness
\* The steps of the handler that has accepted a start request and of the
\* thread it starts, up to the last critical section of the run function.
Run(t) ==
    \/ ApiStart(t) \/ RunInit(t)
    \/ ScrapeSteps(t) \/ ChefsSteps(t)
    \/ Pool(t) \/ M_Iter(t) \/ M_Exit(t)
    \/ RunFinish(t)

NextLive ==
    \/ Supervisor("t1") \/ ScrapeSteps("t1") \/ ChefsSteps("t1")
    \/ Pool("t1") \/ M_Iter("t1") \/ M_Exit("t1")
    \/ LateRequest("t2")

\* The web application with one crawl at a time, a thread that is scheduled
\* again and again and requests that are answered or fail (every
\* session.get of the scrapers has a timeout).  No request has to arrive:
\* ApiCheck is not under fairness.
SpecLive == InitJob /\ [][NextLive]_vars /\ WF_vars(Run("t1"))

\* C23: every accepted start request leads to the end of its run function,
\* and a job that is running is later not running: the slot does not stay
\* blocked.
C23_EveryJobEnds ==
    /\ \A t \in Threads :
          (crawl[t].pc = "accepted") ~> (crawl[t].pc = "idle")
    /\ \A slot \in Slots : job[slot].running ~> ~job[slot].running

\* A job that has ended with the records of its crawl.
C23_Witness ==
    \E slot \in Slots :
        /\ frozen[slot]
        /\ ~job[slot].running
        /\ job[slot].results # <<>>
        /\ crawl["t1"].pc = "idle"

\* C24: every progress call of scrape(), scrape_all_categories() and
\* ChefsEtablissementScraper.scrape() has 0 <= current <= total.
C24_ProgressWithinTotal ==
    \A t \in Threads :
        \A i \in DOMAIN obs[t].progLog :
            LET call == obs[t].progLog[i] IN
            0 <= call[1] /\ call[1] <= call[2]

\* The positions of scrape() / scrape_all_categories() after the pool block.
AfterPoolPcs == {"s_final", "a_final", "returned"}

\* C25: once scrape() or scrape_all_categories() has left its pool block, no
\* detail worker is running or waiting, and after the return the records of
\* the returned sequence are the ones it had at the return.
C25_NoWorkerAfterReturn ==
    \A t \in Threads :
        (crawl[t].mode \in {"scrape", "all"} /\ crawl[t].pc \in AfterPoolPcs) =>
            /\ InFlight(crawl[t].fut) = {}
            /\ Queued(crawl[t].fut) = {}
            /\ Returned(t) => crawl[t].ret = crawl[t].all_startups

\* A call that has returned after stop() was called during the detail
\* phase: one future was cancelled, and a worker already started has
\* enriched its record between the stop and the return.
C25_Witness ==
    \E t \in Threads :
        /\ Returned(t)
        /\ obs[t].stopped /\ obs[t].stopPc = "pool"
        /\ \E i \in DOMAIN crawl[t].fut : crawl[t].fut[i] = "cancelled"
        /\ \E j \in DOMAIN crawl[t].fut :
              /\ crawl[t].fut[j] = "done"
              /\ crawl[t].all_startups[j] # obs[t].atStop[j]

====
